---- MODULE Spec2Model ----
(***************************************************************************)
(* A model of ceport: the position index (render/files.rs), the terminal   *)
(* renderer (render/term.rs), the in-memory FIFO cache and the process-    *)
(* wide registries (cache.rs, diagnostic.rs) and the source store          *)
(* (sources.rs).                                                           *)
(*                                                                         *)
(* Byte offsets are 0-based as in the source; TLA+ sequences are 1-based,  *)
(* so byte i of a content c is c[i + 1] and element i of a Vec v is        *)
(* v[i + 1].                                                               *)
(***************************************************************************)
EXTENDS Integers, Sequences, FiniteSets, TLC

VARIABLES
    overflow_checks,  \* build profile: TRUE = debug (overflow panics), FALSE = release (wraps)
    file,             \* position index under test: a ParsedFile
    loc,              \* the last do_location call: its offset and its result
    texts,            \* results of the as_str calls made so far, by line number
    files,            \* SourceCodes: the Vec of ParsedFile
    diag,             \* the Diagnostic being built, then rendered
    pc,               \* "files", "build" or "done": where the rendering program is
    out,              \* what Term::render wrote to the stream
    status,           \* "none" before the render call, then "ok" or "panic"
    layouts,          \* the layout write_file_snippet planned for each label it reached
    cached,           \* the InMemoryCached: level, stages, max_length (its fifo is below)
    fifo,             \* InMemoryCached::fifo, the VecDeque behind the Mutex
    mutex,            \* the thread holding the Mutex, or 0
    shared,           \* FALSE while the cache is being configured, TRUE once threads use it
    tpc,              \* each thread's position inside cache() or pop()
    targ,             \* each thread's (stage, level, diagnostic) argument of cache()
    offered,          \* number of diagnostics offered to cache() so far
    pops,             \* number of pop() calls started so far
    log_,             \* what happened under the lock: each push attempt and each pop
    last,             \* the last call completed under the lock, with the queue before it
    RENDERER,         \* the two OnceLock statics named RENDERER, of cache.rs and of diagnostic.rs
    frames,           \* each thread's position inside a registry call or a diagnostic() call
    events,           \* what the registry calls did, in the order it happened
    calls,            \* number of registry and diagnostic() calls started so far
    queue,            \* the fifo of the InMemoryCached installed by set_caching
    srcs,             \* Sources::srcs, the Vec of sources
    issued,           \* what each add was given and the identifier it returned
    looked            \* the last lookup: its identifier and what each store answered

idxVars == <<file, loc, texts>>

renderVars == <<files, diag, pc, out, status, layouts>>

cacheVars == <<cached, fifo, mutex, shared, tpc, targ, offered, pops, log_, last>>

registryVars == <<RENDERER, frames, events, calls, queue>>

storeVars == <<srcs, issued, looked>>

\* what the actions of each specification leave alone
nonIndexVars == <<renderVars, cacheVars, registryVars, storeVars>>

nonRenderVars == <<idxVars, cacheVars, registryVars, storeVars>>

nonCacheVars == <<overflow_checks, idxVars, renderVars, registryVars, storeVars>>

nonRegistryVars == <<overflow_checks, idxVars, renderVars, cacheVars, storeVars>>

nonStoreVars == <<overflow_checks, idxVars, renderVars, cacheVars, registryVars>>

vars == <<overflow_checks, idxVars, renderVars, cacheVars, registryVars, storeVars>>

----------------------------------------------------------------------------
(* Bounds of the model.                                                    *)

\* longest content of the position-index specification
MaxLen == 4
\* how far past the end of a content the offsets and line numbers tried reach
MaxOver == 2
\* width in bits of the model's usize (the source's is 64)
UsizeBits == 16

\* sources one SourceCodes holds at most
MaxFiles == 1
\* labels of one diagnostic at most
MaxLabels == 2
\* notes of one diagnostic at most
MaxNotes == 1
\* label regions (primary and secondary) of one diagnostic at most
MaxRegions == 2
\* builder calls (with_code, with_note, with_label, with_secondary) on one diagnostic
MaxBuilderCalls == 3
\* largest byte offset a label region is given
MaxOffset == 4
\* largest max_length an InMemoryCached is created with
MaxCapacity == 2
\* diagnostics offered to cache() in one run
MaxOffers == 3
\* pop() calls in one run
MaxPops == 2
\* set_caching, set_renderer and diagnostic() calls in one run
MaxCalls == 3
\* sources added to one store
MaxAdds == 3
\* secondary regions of the label of the label-group specification
MaxSecondaries == 2

UsizeMod == 2 ^ UsizeBits

Alphabet == {"a", "\n"}

Contents == UNION {[1..n -> Alphabet] : n \in 0..MaxLen}

----------------------------------------------------------------------------
(* usize arithmetic: an overflow panics under overflow checks (debug       *)
(* profile) and wraps otherwise (release profile).                         *)

USub(a, b, checks) ==
    IF a >= b THEN [panic |-> FALSE, val |-> a - b]
    ELSE IF checks THEN [panic |-> TRUE, val |-> 0]
    ELSE [panic |-> FALSE, val |-> (a - b) % UsizeMod]

UAdd(a, b, checks) ==
    IF a + b < UsizeMod THEN [panic |-> FALSE, val |-> a + b]
    ELSE IF checks THEN [panic |-> TRUE, val |-> 0]
    ELSE [panic |-> FALSE, val |-> (a + b) % UsizeMod]

----------------------------------------------------------------------------
(* render/files.rs: ParsedFile                                             *)

RECURSIVE scan_line_breaks(_, _)
scan_line_breaks(content, idx) ==
    IF idx >= Len(content) THEN <<>>
    ELSE IF content[idx + 1] = "\n"
         THEN <<idx>> \o scan_line_breaks(content, idx + 1)
         ELSE scan_line_breaks(content, idx + 1)

ParsedFile_new(file_name, content) ==
    [ line_break_offsets |-> scan_line_breaks(content, 0),
      file_name |-> file_name,
      content |-> content ]

None == [tag |-> "None"]
Panic == [tag |-> "panic"]
Some(v) == [tag |-> "Some", val |-> v]

Location(lines, cols) == [lines |-> lines, cols |-> cols]

\* the body of `if offset <= *o { if idx != 0 { ... } }` once both tests pass
do_location_cols(f, offset, idx, checks) ==
    LET d1 == USub(offset, f.line_break_offsets[idx], checks)   \* breaks[idx - 1]
        d2 == USub(d1.val, 1, checks)
        c  == UAdd(d2.val, 1, checks)
    IN
    IF d1.panic \/ d2.panic \/ c.panic THEN Panic
    ELSE Some(Location(idx + 1, c.val))

\* ParsedFile::do_location, the loop from element idx (0-based) on
RECURSIVE do_location_from(_, _, _, _)
do_location_from(f, offset, idx, checks) ==
    IF idx >= Len(f.line_break_offsets) THEN None
    ELSE IF offset <= f.line_break_offsets[idx + 1] /\ idx # 0
         THEN do_location_cols(f, offset, idx, checks)
         ELSE do_location_from(f, offset, idx + 1, checks)

do_location(f, offset, checks) ==
    IF f.line_break_offsets = <<>>
    THEN Some(Location(1, offset + 1))
    ELSE do_location_from(f, offset, 0, checks)

\* ParsedFile::location: each `expect` turns None into a panic
location(f, range, checks) ==
    LET start == do_location(f, range.start, checks)
        end   == do_location(f, range.end, checks)
    IN
    IF start.tag # "Some" THEN Panic
    ELSE IF end.tag # "Some" THEN Panic
    ELSE Some([start |-> start.val, end |-> end.val])

Ok(v) == [tag |-> "Ok", val |-> v]

\* &s[a..b] on a str: panics unless a <= b <= len
Slice(s, a, b) ==
    IF a > b \/ b > Len(s) THEN Panic ELSE Ok(SubSeq(s, a + 1, b))

\* v[i] on a Vec: panics unless i < len
Index(v, i) ==
    IF i < 0 \/ i >= Len(v) THEN Panic ELSE Ok(v[i + 1])

\* ParsedFile::as_str
as_str(f, lines) ==
    IF ~(lines > 0) THEN Panic
    ELSE LET l == lines - 1
             breaks == f.line_break_offsets
         IN
         IF ~(l < Len(breaks) + 1) THEN Panic
         ELSE IF breaks = <<>> THEN Ok(f.content)
         ELSE IF l = 0 THEN Slice(f.content, 0, breaks[1])
         ELSE LET from == Index(breaks, l - 1)
                  to   == Index(breaks, l)
              IN
              IF from.tag = "panic" \/ to.tag = "panic" THEN Panic
              ELSE Slice(f.content, from.val + 1, to.val)

----------------------------------------------------------------------------
(* render/files.rs: SourceCodes, the in-memory Files implementation        *)

\* Files::to_location for SourceCodes
to_location(fs, id, range, checks) ==
    IF ~(id < Len(fs)) THEN Panic
    ELSE location(fs[id + 1], range, checks)

\* Files::as_str for SourceCodes
files_as_str(fs, id, lines) ==
    IF ~(id < Len(fs)) THEN Panic
    ELSE as_str(fs[id + 1], lines)

\* Files::to_file_name for SourceCodes
to_file_name(fs, id) ==
    IF ~(id < Len(fs)) THEN Panic
    ELSE Ok(fs[id + 1].file_name)

----------------------------------------------------------------------------
(* render/term.rs: Term.  The output is the sequence of write!/writeln!    *)
(* calls made on the stream, one item per call; nl marks a writeln!.  A    *)
(* writer is [out, panic, plans]: once it has panicked nothing more is     *)
(* written; plans keeps the layout planned for each label, in label order. *)
(* Colour changes and I/O errors of the stream are left out.               *)

Writer0 == [out |-> <<>>, panic |-> FALSE, plans |-> <<>>]

Emit(w, item) == IF w.panic THEN w ELSE [w EXCEPT !.out = Append(@, item)]

Abort(w) == [w EXCEPT !.panic = TRUE]

\* Term::write_level: the fixed-width severity token
level_token(level) ==
    CASE level = "Bug" -> "  bug"
      [] level = "Error" -> "error"
      [] level = "Warning" -> " warn"
      [] level = "Note" -> " note"
      [] level = "Help" -> " help"

DigitChars == <<"0", "1", "2", "3", "4", "5", "6", "7", "8", "9">>

\* usize::to_string: the decimal digits of n
RECURSIVE to_string(_)
to_string(n) ==
    IF n < 10 THEN <<DigitChars[n + 1]>>
    ELSE to_string(n \div 10) \o <<DigitChars[(n % 10) + 1]>>

RECURSIVE zero_pad(_, _)
zero_pad(digits, width) ==
    IF Len(digits) >= width THEN digits ELSE zero_pad(<<"0">> \o digits, width)

\* Term::write_code: "[{:06?}]"
code_text(code) == <<"[">> \o zero_pad(to_string(code), 6) \o <<"]">>

\* Term::write_header
write_header(w, d) ==
    LET w1 == Emit(w, [kind |-> "level", text |-> level_token(d.level), nl |-> FALSE])
        w2 == IF d.code.tag = "Some"
              THEN Emit(w1, [kind |-> "code", text |-> code_text(d.code.val), nl |-> FALSE])
              ELSE w1
    IN Emit(w2, [kind |-> "message", text |-> d.message, nl |-> TRUE])

\* Term::write_notes
RECURSIVE write_notes_from(_, _, _, _)
write_notes_from(w, prefix_width, d, i) ==
    IF i > Len(d.nodes) THEN w
    ELSE LET w1 == Emit(w, [kind |-> "note_mark", pad |-> prefix_width, nl |-> FALSE])
             w2 == Emit(w1, [kind |-> "note", text |-> d.nodes[i], nl |-> TRUE])
         IN write_notes_from(w2, prefix_width, d, i + 1)

write_notes(w, prefix_width, d) == write_notes_from(w, prefix_width, d, 1)

----------------------------------------------------------------------------
(* Term::write_file_snippet, planning: the HashSet of lines, the HashMap   *)
(* of inline labels and the HashMap of multi-line markers.                 *)

EmptyMap == [k \in {} |-> 0]

\* an insert that keeps the value a key already has, as entry(k).or_insert(v) does
MapInsert_keeps_first(m, k, v) ==
    [x \in (DOMAIN m) \cup {k} |-> IF x \in DOMAIN m THEN m[x] ELSE v]

\* HashMap::insert: a later insert under the same key replaces the value
MapInsert(m, k, v) == [x \in (DOMAIN m) \cup {k} |-> IF x = k THEN v ELSE m[x]]

\* HashMap::entry(k).or_insert(vec![]).push(v)
MapPush(m, k, v) ==
    [x \in (DOMAIN m) \cup {k} |->
        IF x = k THEN (IF k \in DOMAIN m THEN Append(m[k], v) ELSE <<v>>) ELSE m[x]]

Marker(offset, label, index) == [offset |-> offset, label |-> label, index |-> index]

\* lines 143-172: the primary region
plan_primary(l, label) ==
    LET lines == {l.start.lines, l.end.lines} IN
    IF l.start.lines = l.end.lines
    THEN [ lines |-> lines,
           inline_labels |->
               MapInsert(EmptyMap, l.start.lines,
                         [location |-> l, message |-> label.primary.message, primary |-> TRUE]),
           multiline_lables |-> EmptyMap,
           multilines |-> 0,
           max_lines |-> l.end.lines ]
    ELSE [ lines |-> lines,
           inline_labels |-> EmptyMap,
           multiline_lables |->
               MapPush(MapPush(EmptyMap, l.start.lines, Marker(l.start.cols, None, 0)),
                       l.start.lines, Marker(l.end.cols, Some(label.primary.message), 0)),
           multilines |-> 1,
           max_lines |-> l.end.lines ]

\* lines 175-198: one secondary region
plan_secondary(p, l, region) ==
    LET max_lines == IF l.end.lines > p.max_lines THEN l.end.lines ELSE p.max_lines
        lines == p.lines \cup {l.start.lines, l.end.lines}
    IN
    IF l.start.lines = l.end.lines
    THEN [p EXCEPT
            !.max_lines = max_lines,
            !.lines = lines,
            !.inline_labels =
                MapInsert(@, l.start.lines,
                          [location |-> l, message |-> region.message, primary |-> FALSE])]
    ELSE [p EXCEPT
            !.max_lines = max_lines,
            !.lines = lines,
            !.multiline_lables =
                MapPush(MapPush(@, l.start.lines, Marker(l.start.cols, None, p.multilines)),
                        l.end.lines, Marker(l.end.cols, Some(region.message), p.multilines)),
            !.multilines = p.multilines + 1]

\* lines 174-199: the loop over label.secondary; a failed to_location aborts
RECURSIVE plan_secondaries(_, _, _, _, _)
plan_secondaries(p, fs, label, i, checks) ==
    IF i > Len(label.secondary) THEN Ok(p)
    ELSE LET l == to_location(fs, label.id, label.secondary[i].range, checks) IN
         IF l.tag # "Some" THEN Panic
         ELSE plan_secondaries(plan_secondary(p, l.val, label.secondary[i]),
                               fs, label, i + 1, checks)

\* lines 143-199
plan(fs, label, checks) ==
    LET l == to_location(fs, label.id, label.primary.range, checks) IN
    IF l.tag # "Some" THEN Panic
    ELSE plan_secondaries(plan_primary(l.val, label), fs, label, 1, checks)

----------------------------------------------------------------------------
(* Term::write_file_snippet, emission.                                     *)

\* Vec::sort on the drained HashSet: ascending
RECURSIVE sorted(_)
sorted(set) ==
    IF set = {} THEN <<>>
    ELSE LET m == CHOOSE x \in set : \A y \in set : x <= y
         IN <<m>> \o sorted(set \ {m})

\* UnicodeWidthStr::width: a control character has no width, an ASCII letter has 1
RECURSIVE width(_)
width(str) ==
    IF str = <<>> THEN 0
    ELSE (IF Head(str) = "\n" THEN 0 ELSE 1) + width(Tail(str))

\* str::repeat(n) of a 3-byte glyph: a length that overflows the capacity aborts
repeat_aborts(n) == n * 3 >= UsizeMod \div 2

\* `*offset + ident_size - *index * 2 - 4`, then "─".repeat(..)
connector(offset, ident_size, index, checks) ==
    LET c1 == UAdd(offset, ident_size, checks)
        c2 == USub(c1.val, index * 2, checks)
        c3 == USub(c2.val, 4, checks)
    IN
    IF c1.panic \/ c2.panic \/ c3.panic THEN Panic
    ELSE IF repeat_aborts(c3.val) THEN Panic
    ELSE Ok(c3.val)

\* lines 233-243 (open = TRUE) and 271-282 (open = FALSE): the markers of one line
RECURSIVE write_markers(_, _, _, _, _, _, _)
write_markers(w, markers, i, open, prefix_width, ident_size, checks) ==
    IF w.panic \/ i > Len(markers) THEN w
    ELSE LET m == markers[i]
             hit == IF open THEN m.label.tag = "None" ELSE m.label.tag = "Some"
             w1 == Emit(w, [kind |-> "margin", pad |-> prefix_width, nl |-> FALSE])
             c == connector(m.offset, ident_size, m.index, checks)
             w2 == IF c.tag = "panic" THEN Abort(w1)
                   ELSE IF open
                   THEN Emit(w1, [kind |-> "open", pad |-> m.index * 2 + 1,
                                  connector |-> c.val, nl |-> TRUE])
                   ELSE Emit(w1, [kind |-> "close", pad |-> m.index * 2 + 1,
                                  connector |-> c.val, message |-> m.label.val, nl |-> TRUE])
         IN write_markers(IF hit THEN w2 ELSE w, markers, i + 1, open,
                          prefix_width, ident_size, checks)

\* lines 246-266: the inline label of one line
write_inline(w, inline, line_content, prefix_width, ident_size, checks) ==
    LET w1 == Emit(w, [kind |-> "margin", pad |-> prefix_width, nl |-> FALSE])
        from == USub(inline.location.start.cols, 1, checks)
        to == USub(inline.location.end.cols, 1, checks)
        before == IF from.panic THEN Panic ELSE Slice(line_content, 0, from.val)
        under == IF from.panic \/ to.panic THEN Panic
                 ELSE Slice(line_content, from.val, to.val)
    IN
    IF w.panic THEN w
    ELSE IF before.tag = "panic" \/ under.tag = "panic" THEN Abort(w1)
    ELSE LET w2 == Emit(w1, [kind |-> "pad", pad |-> width(before.val) + ident_size,
                             nl |-> FALSE])
             w3 == Emit(w2, [kind |-> "underline",
                             glyph |-> IF inline.primary THEN "^" ELSE "-",
                             len |-> width(under.val), nl |-> FALSE])
         IN Emit(w3, [kind |-> "label", text |-> inline.message, nl |-> TRUE])

\* lines 218-284: one iteration of `for line in lines`
write_line(w, fs, label, p, line, prefix_width, ident_size, checks) ==
    LET w1 == Emit(w, [kind |-> "gutter", line |-> line, width |-> prefix_width, nl |-> FALSE])
        line_content == files_as_str(fs, label.id, line)
        w2 == Emit(w1, [kind |-> "source", indent |-> ident_size * 2,
                        text |-> line_content.val, nl |-> TRUE])
        markers == IF line \in DOMAIN p.multiline_lables THEN p.multiline_lables[line] ELSE <<>>
        w3 == write_markers(w2, markers, 1, TRUE, prefix_width, ident_size, checks)
        w4 == IF line \in DOMAIN p.inline_labels
              THEN write_inline(w3, p.inline_labels[line], line_content.val,
                                prefix_width, ident_size, checks)
              ELSE w3
    IN
    IF w.panic THEN w
    ELSE IF line_content.tag = "panic" THEN Abort(w1)
    ELSE write_markers(w4, markers, 1, FALSE, prefix_width, ident_size, checks)

RECURSIVE write_lines(_, _, _, _, _, _, _, _, _)
write_lines(w, fs, label, p, lines, i, prefix_width, ident_size, checks) ==
    IF w.panic \/ i > Len(lines) THEN w
    ELSE write_lines(write_line(w, fs, label, p, lines[i], prefix_width, ident_size, checks),
                     fs, label, p, lines, i + 1, prefix_width, ident_size, checks)

\* Term::write_file_snippet: the writer afterwards and the returned prefix_width
write_file_snippet(w, fs, label, checks) ==
    LET p == plan(fs, label, checks) IN
    IF w.panic THEN [w |-> w, prefix_width |-> 0]
    ELSE IF p.tag = "panic" THEN [w |-> Abort(w), prefix_width |-> 0]
    ELSE LET prefix_width == Len(to_string(p.val.max_lines))
             lines == sorted(p.val.lines)
             w0 == [w EXCEPT !.plans = Append(@, p.val)]
             w1 == Emit(w0, [kind |-> "file", pad |-> prefix_width,
                             text |-> to_file_name(fs, label.id).val, nl |-> TRUE])
             ident_size == p.val.multilines + 1
         IN [ w |-> write_lines(w1, fs, label, p.val, lines, 1,
                                prefix_width, ident_size, checks),
              prefix_width |-> prefix_width ]

\* Term::write_snippets
RECURSIVE write_snippets_from(_, _, _, _, _)
write_snippets_from(w, fs, d, i, checks) ==
    IF w.panic \/ i > Len(d.labels) THEN w
    ELSE LET r == write_file_snippet(w, fs, d.labels[i], checks) IN
         write_snippets_from(write_notes(r.w, r.prefix_width, d), fs, d, i + 1, checks)

write_snippets(w, fs, d, checks) == write_snippets_from(w, fs, d, 1, checks)

\* <Term as Renderer>::render
render(fs, d, checks) ==
    write_snippets(write_header(Writer0, d), fs, d, checks)

----------------------------------------------------------------------------
(* cache.rs: InMemoryCached.  A thread is "idle" (in no call, or waiting   *)
(* for the lock), "cache_locked" (inside cache(), holding the lock) or     *)
(* "pop_locked" (inside pop(), holding the lock).                          *)

\* the threads that call cache() and pop() on the one InMemoryCached
Threads == {1, 2}

\* the discriminants of enum Level
level_u8(level) ==
    CASE level = "Bug" -> 1
      [] level = "Error" -> 2
      [] level = "Warn" -> 3

\* InMemoryCached::new
InMemoryCached_new(max_length) ==
    [level |-> "Error", stages |-> {}, max_length |-> max_length]

\* a filter that lets through only what is strictly more severe than the threshold
enabled_above_threshold(c, stage, level) ==
    IF ~(level_u8(c.level) <= level_u8(level)) THEN stage \in c.stages ELSE FALSE

\* <InMemoryCached as Caching>::enabled
enabled(c, stage, level) ==
    IF ~(level_u8(c.level) < level_u8(level)) THEN stage \in c.stages ELSE FALSE

\* the capacity test off by one: a full queue still takes an item
fifo_has_room_off_by_one(len, max_length) == len <= max_length

\* `fifo.len() < self.max_length`
fifo_has_room(len, max_length) == len < max_length

\* VecDeque::push_back
push_back(q, item) == Append(q, item)

\* the queue popped at the wrong end, as VecDeque::pop_back does
pop_front_takes_back(q) ==
    IF q = <<>> THEN [res |-> None, rest |-> q]
    ELSE [res |-> Some(q[Len(q)]), rest |-> SubSeq(q, 1, Len(q) - 1)]

\* VecDeque::pop_front: the Option returned and the queue left
pop_front(q) ==
    IF q = <<>> THEN [res |-> None, rest |-> q]
    ELSE [res |-> Some(Head(q)), rest |-> Tail(q)]

----------------------------------------------------------------------------
(* cache.rs and diagnostic.rs: the process-wide registries.  Each is a     *)
(* static OnceLock named RENDERER; the one of cache.rs holds the Caching   *)
(* installed by set_caching, the one of diagnostic.rs the GlobalRenderer   *)
(* installed by set_renderer.  An installed value is an InMemoryCached     *)
(* with the identity `id` of the instance.                                 *)

Registries == {"caching", "renderer"}

\* a cell that takes every value offered, as a plain Mutex<Option<_>> would
OnceLock_set_replaces(cell, value) == [cell |-> Some(value), res |-> "Ok"]

\* OnceLock::set: the cell afterwards, and Ok(()) or Err(value)
OnceLock_set(cell, value) ==
    IF cell = None THEN [cell |-> Some(value), res |-> "Ok"]
    ELSE [cell |-> cell, res |-> "Err"]

\* static TERM_RENDERER: the TerminalRenderer get_renderer falls back to
TERM_RENDERER == [id |-> 0, level |-> "Error", stages |-> {}, max_length |-> 0]

\* get_caching: the installed Caching, or the panic of expect
get_caching(cell) ==
    IF cell.tag = "Some" THEN Ok(cell.val) ELSE Panic

\* get_renderer: the installed GlobalRenderer, or TERM_RENDERER
get_renderer(cell) ==
    IF cell.tag = "Some" THEN Ok(cell.val) ELSE Ok(TERM_RENDERER)

\* the getter diagnostic() of each module starts with
getter(reg, cell) ==
    IF reg = "caching" THEN get_caching(cell) ELSE get_renderer(cell)

\* what renderer.enabled(stage, level) may answer: the filter of the InMemoryCached
\* for a Caching, anything for a GlobalRenderer (the trait's implementations are the
\* application's)
enabled_results(reg, r, stage, level) ==
    IF reg = "caching" THEN {enabled(r, stage, level)} ELSE BOOLEAN

\* a diagnostic() that runs the builder whatever enabled answered
after_enabled_eager(res) == "build"

\* `if renderer.enabled(stage, level) { ...builder()... }`: where the call goes next
after_enabled(res) == IF res THEN "build" ELSE "idle"

\* <InMemoryCached as Caching>::cache on a queue nobody else holds the lock of
cache(c, q, stage, level, diagnostic) ==
    IF enabled(c, stage, level) /\ fifo_has_room(Len(q), c.max_length)
    THEN push_back(q, [stage |-> stage, level |-> level, diagnostic |-> diagnostic])
    ELSE q

----------------------------------------------------------------------------
(* sources.rs: Sources, and render/files.rs: SourceCodes::add.             *)

\* sources::src: a ContentWithName
ContentWithName(name, content) == [name |-> name, content |-> content]

\* an add that numbers the sources from 1
Sources_add_from_one(v, s) == [srcs |-> Append(v, s), id |-> Len(v) + 1]

\* Sources::add: the Vec afterwards and the SrcId returned
Sources_add(v, s) == [srcs |-> Append(v, s), id |-> Len(v)]

\* Sources::get
Sources_get(v, id) ==
    IF id < Len(v) THEN Some(v[id + 1]) ELSE None

\* SourceCodes::add: the Vec afterwards and the FileId returned
SourceCodes_add(fs, name, content) ==
    [files |-> Append(fs, ParsedFile_new(name, content)), id |-> Len(fs)]

\* ColorRenderer::write_file_name: the name written, or the panic of expect
write_file_name(v, id) ==
    IF Sources_get(v, id).tag = "Some" THEN Ok(Sources_get(v, id).val.name) ELSE Panic

----------------------------------------------------------------------------
(* The variables of a specification that does not use a component.         *)

NoCall == [called |-> FALSE, offset |-> 0, res |-> None]

IndexIdle ==
    /\ file = ParsedFile_new("test", <<>>)
    /\ loc = NoCall
    /\ texts = <<>>

NoDiagnostic ==
    [level |-> "Bug", code |-> None, message |-> "", nodes |-> <<>>, labels |-> <<>>]

\* SourceCodes::default() and no diagnostic yet
RenderIdle ==
    /\ files = <<>>
    /\ diag = NoDiagnostic
    /\ pc = "files"
    /\ out = <<>>
    /\ status = "none"
    /\ layouts = <<>>

NoItem == [stage |-> "None", level |-> "Error", diagnostic |-> 0]

NoLast == [op |-> "none", before |-> <<>>, after |-> <<>>, res |-> None]

\* an InMemoryCached nobody uses
CacheQuiet ==
    /\ fifo = <<>>
    /\ mutex = 0
    /\ shared = FALSE
    /\ tpc = [t \in Threads |-> "idle"]
    /\ targ = [t \in Threads |-> NoItem]
    /\ offered = 0
    /\ pops = 0
    /\ log_ = <<>>
    /\ last = NoLast

CacheIdle ==
    /\ cached = InMemoryCached_new(0)
    /\ CacheQuiet

NoFrame ==
    [at |-> "idle", reg |-> "caching", val |-> TERM_RENDERER, stage |-> "None",
     level |-> "Error", call |-> 0]

\* both OnceLock cells empty and no thread in a call
RegistryIdle ==
    /\ RENDERER = [reg \in Registries |-> None]
    /\ frames = [t \in Threads |-> NoFrame]
    /\ events = <<>>
    /\ calls = 0
    /\ queue = <<>>

NoLookup ==
    [called |-> FALSE, id |-> 0, srcs_len |-> 0, files_len |-> 0,
     src |-> None, written |-> None, name |-> None]

\* Sources::default() and no call yet
StoreIdle ==
    /\ srcs = <<>>
    /\ issued = [store \in {"Sources", "SourceCodes"} |-> <<>>]
    /\ looked = NoLookup

----------------------------------------------------------------------------
(* The rendering program, as tests::test_term of render/term.rs runs it:   *)
(* sources are added to a SourceCodes, a Diagnostic is built by the        *)
(* builder calls, and Term::render is called once.                         *)

DemoContent ==
    << "f", "i", "z", "z", " ", ":", " ", "N", "a", "t", " ", "-", ">", " ",
       "S", "t", "r", "i", "n", "g", "\n" >>

Sources ==
    { [name |-> "demo.fun", content |-> DemoContent],
      [name |-> "multi.fun", content |-> <<"\n", "a", "\n", "a", "\n">>] }

LevelsTried == {"Error"}

Codes == {10}

\* the message given to the n-th region registered on a diagnostic
RegionMessage(n) ==
    IF n = 1 THEN "here" ELSE IF n = 2 THEN "there" ELSE "elsewhere"

NoteText(n) == IF n = 1 THEN "first note" ELSE "another note"

Ranges == [start : 0..MaxOffset, end : 0..MaxOffset]

RECURSIVE RegionCount(_, _)
RegionCount(labels, i) ==
    IF i > Len(labels) THEN 0
    ELSE 1 + Len(labels[i].secondary) + RegionCount(labels, i + 1)

BuilderCalls(d) ==
    (IF d.code.tag = "Some" THEN 1 ELSE 0) + Len(d.nodes) + RegionCount(d.labels, 1)

InitRender ==
    /\ overflow_checks \in BOOLEAN
    /\ IndexIdle
    /\ RenderIdle
    /\ CacheIdle
    /\ RegistryIdle
    /\ StoreIdle

\* SourceCodes::add
AddSource(src) ==
    /\ pc = "files"
    /\ Len(files) < MaxFiles
    /\ files' = Append(files, ParsedFile_new(src.name, src.content))
    /\ UNCHANGED <<overflow_checks, nonRenderVars, diag, pc, out, status, layouts>>

\* Diagnostic::bug(message), Diagnostic::error(message)
NewDiagnostic(level, message) ==
    /\ pc = "files"
    /\ diag' = [NoDiagnostic EXCEPT !.level = level, !.message = message]
    /\ pc' = "build"
    /\ UNCHANGED <<overflow_checks, nonRenderVars, files, out, status, layouts>>

\* Diagnostic::with_code
WithCode(code) ==
    /\ pc = "build"
    /\ diag.code = None
    /\ BuilderCalls(diag) < MaxBuilderCalls
    /\ diag' = [diag EXCEPT !.code = Some(code)]
    /\ UNCHANGED <<overflow_checks, nonRenderVars, files, pc, out, status, layouts>>

\* Diagnostic::with_note
WithNote ==
    /\ pc = "build"
    /\ Len(diag.nodes) < MaxNotes
    /\ BuilderCalls(diag) < MaxBuilderCalls
    /\ diag' = [diag EXCEPT !.nodes = Append(@, NoteText(Len(diag.nodes) + 1))]
    /\ UNCHANGED <<overflow_checks, nonRenderVars, files, pc, out, status, layouts>>

\* Diagnostic::with_label(Label::new(id, range, message))
WithLabel(id, range) ==
    /\ pc = "build"
    /\ Len(diag.labels) < MaxLabels
    /\ RegionCount(diag.labels, 1) < MaxRegions
    /\ BuilderCalls(diag) < MaxBuilderCalls
    /\ diag' = [diag EXCEPT !.labels =
                  Append(@, [ id |-> id,
                              primary |-> [range |-> range,
                                           message |-> RegionMessage(RegionCount(diag.labels, 1) + 1)],
                              secondary |-> <<>> ])]
    /\ UNCHANGED <<overflow_checks, nonRenderVars, files, pc, out, status, layouts>>

\* Label::with_secondary(range, message), on the label registered last
WithSecondary(range) ==
    /\ pc = "build"
    /\ diag.labels # <<>>
    /\ RegionCount(diag.labels, 1) < MaxRegions
    /\ BuilderCalls(diag) < MaxBuilderCalls
    /\ diag' = [diag EXCEPT !.labels[Len(diag.labels)].secondary =
                  Append(@, [range |-> range,
                             message |-> RegionMessage(RegionCount(diag.labels, 1) + 1)])]
    /\ UNCHANGED <<overflow_checks, nonRenderVars, files, pc, out, status, layouts>>

\* term.render(&files, diagnostic)
Render ==
    /\ pc = "build"
    /\ \E w \in {render(files, diag, overflow_checks)} :
         /\ out' = w.out
         /\ status' = IF w.panic THEN "panic" ELSE "ok"
         /\ layouts' = w.plans
    /\ pc' = "done"
    /\ UNCHANGED <<overflow_checks, nonRenderVars, files, diag>>

NextRender ==
    \/ \E src \in Sources : AddSource(src)
    \/ \E level \in LevelsTried : NewDiagnostic(level, "type mismatch")
    \/ \E code \in Codes : WithCode(code)
    \/ WithNote
    \/ \E id \in 0..(MaxFiles - 1), range \in Ranges : WithLabel(id, range)
    \/ \E range \in Ranges : WithSecondary(range)
    \/ Render

SpecRender == InitRender /\ [][NextRender]_vars

----------------------------------------------------------------------------
(* A source of ten lines: labels are registered on it, each with a primary *)
(* region out of a few that reach its later lines, and the diagnostic is   *)
(* rendered.                                                               *)

\* an empty line, the line "aa" and eight more empty lines: line 2 ends at offset 3
\* and each line n from 3 to 10 is the one byte at offset n + 1
TallContent == <<"\n", "a", "a", "\n">> \o [i \in 1..8 |-> "\n"]

\* line 2 column 1; line 2 columns 1 to 3; line 2 column 3 to line 4 column 1;
\* line 3 column 1; line 4 column 1 to line 10 column 1; line 10 column 1
TallRanges ==
    { [start |-> 1, end |-> 1], [start |-> 1, end |-> 3], [start |-> 3, end |-> 5],
      [start |-> 4, end |-> 4], [start |-> 5, end |-> 11], [start |-> 11, end |-> 11] }

InitTall ==
    /\ overflow_checks \in BOOLEAN
    /\ IndexIdle
    /\ CacheIdle
    /\ RegistryIdle
    /\ StoreIdle
    /\ files = <<ParsedFile_new("tall.fun", TallContent)>>
    /\ diag = [NoDiagnostic EXCEPT !.level = "Error", !.message = "type mismatch"]
    /\ pc = "build"
    /\ out = <<>>
    /\ status = "none"
    /\ layouts = <<>>

\* Diagnostic::with_label(Label::new(0, range, message))
TallLabel(range) ==
    /\ pc = "build"
    /\ Len(diag.labels) < MaxLabels
    /\ diag' = [diag EXCEPT !.labels =
                  Append(@, [ id |-> 0,
                              primary |-> [range |-> range,
                                           message |-> RegionMessage(Len(diag.labels) + 1)],
                              secondary |-> <<>> ])]
    /\ UNCHANGED <<overflow_checks, nonRenderVars, files, pc, out, status, layouts>>

NextTall ==
    \/ \E range \in TallRanges : TallLabel(range)
    \/ Render

SpecTall == InitTall /\ [][NextTall]_vars

----------------------------------------------------------------------------
(* One label group: a label over a three-line source is given a primary    *)
(* region and secondary regions, each from any offset to any offset of     *)
(* lines 2 and 3, and rendered.                                            *)

\* an empty first line, the line "a" and an empty third line
GroupContent == <<"\n", "a", "\n", "\n">>

\* the offsets after the first line break and not after the last one
GroupRanges ==
    [start : 1..(Len(GroupContent) - 1), end : 1..(Len(GroupContent) - 1)]

InitGroup ==
    /\ overflow_checks \in BOOLEAN
    /\ IndexIdle
    /\ CacheIdle
    /\ RegistryIdle
    /\ StoreIdle
    /\ files = <<ParsedFile_new("group.fun", GroupContent)>>
    /\ \E range \in GroupRanges :
          diag = [ level |-> "Error", code |-> None, message |-> "type mismatch",
                   nodes |-> <<>>,
                   labels |-> << [ id |-> 0,
                                   primary |-> [range |-> range, message |-> RegionMessage(1)],
                                   secondary |-> <<>> ] >> ]
    /\ pc = "build"
    /\ out = <<>>
    /\ status = "none"
    /\ layouts = <<>>

\* Label::with_secondary(range, message)
GroupSecondary(range) ==
    /\ pc = "build"
    /\ Len(diag.labels[1].secondary) < MaxSecondaries
    /\ diag' = [diag EXCEPT !.labels[1].secondary =
                  Append(@, [range |-> range,
                             message |-> RegionMessage(Len(diag.labels[1].secondary) + 2)])]
    /\ UNCHANGED <<overflow_checks, nonRenderVars, files, pc, out, status, layouts>>

NextGroup ==
    \/ \E range \in GroupRanges : GroupSecondary(range)
    \/ Render

SpecGroup == InitGroup /\ [][NextGroup]_vars

----------------------------------------------------------------------------
(* The cache in use: an InMemoryCached is created and configured by the    *)
(* builder calls, then shared; threads call cache() and pop() on it.  A    *)
(* call is a sequence of steps, so that calls of different threads         *)
(* interleave; the steps between lock() and the drop of the guard are one  *)
(* step, the lock being held throughout.                                   *)

StagesTried == {"Parsing", "Semantic"}

CacheLevels == {"Bug", "Error", "Warn"}

InitCache ==
    /\ overflow_checks = TRUE
    /\ IndexIdle
    /\ RenderIdle
    /\ \E max_length \in 0..MaxCapacity : cached = InMemoryCached_new(max_length)
    /\ CacheQuiet
    /\ RegistryIdle
    /\ StoreIdle

\* InMemoryCached::enable_level
EnableLevel(level) ==
    /\ ~shared
    /\ cached' = [cached EXCEPT !.level = level]
    /\ UNCHANGED <<nonCacheVars, fifo, mutex, shared, tpc, targ, offered, pops, log_, last>>

\* InMemoryCached::enable_stage
EnableStage(stage) ==
    /\ ~shared
    /\ cached' = [cached EXCEPT !.stages = @ \cup {stage}]
    /\ UNCHANGED <<nonCacheVars, fifo, mutex, shared, tpc, targ, offered, pops, log_, last>>

\* the configured cache is handed to the threads (by value into set_caching)
Share ==
    /\ ~shared
    /\ shared' = TRUE
    /\ UNCHANGED <<nonCacheVars, cached, fifo, mutex, tpc, targ, offered, pops, log_, last>>

\* cache(), lines 65-66: the filter, then self.fifo.lock().unwrap(); a diagnostic the
\* filter rejects is dropped at once, and a thread that finds the lock held waits
CacheCall(t, stage, level) ==
    /\ shared
    /\ tpc[t] = "idle"
    /\ offered < MaxOffers
    /\ IF enabled(cached, stage, level)
       THEN /\ mutex = 0
            /\ mutex' = t
            /\ tpc' = [tpc EXCEPT ![t] = "cache_locked"]
            /\ targ' = [targ EXCEPT ![t] =
                          [stage |-> stage, level |-> level, diagnostic |-> offered + 1]]
       ELSE UNCHANGED <<mutex, tpc, targ>>
    /\ offered' = offered + 1
    /\ UNCHANGED <<nonCacheVars, cached, fifo, shared, pops, log_, last>>

\* cache(), lines 68-73: push or warn, then the guard is dropped
CachePush(t) ==
    /\ tpc[t] = "cache_locked"
    /\ mutex = t
    /\ LET stored == fifo_has_room(Len(fifo), cached.max_length)
           after == IF stored THEN push_back(fifo, targ[t]) ELSE fifo
       IN /\ fifo' = after
          /\ log_' = Append(log_, [op |-> "push", item |-> targ[t], stored |-> stored])
          /\ last' = [op |-> "push", before |-> fifo, after |-> after, res |-> None]
    /\ mutex' = 0
    /\ tpc' = [tpc EXCEPT ![t] = "idle"]
    /\ targ' = [targ EXCEPT ![t] = NoItem]
    /\ UNCHANGED <<nonCacheVars, cached, shared, offered, pops>>

\* pop(), line 77: self.fifo.lock().unwrap(); a thread that finds the lock held waits
PopCall(t) ==
    /\ shared
    /\ tpc[t] = "idle"
    /\ pops < MaxPops
    /\ mutex = 0
    /\ mutex' = t
    /\ pops' = pops + 1
    /\ tpc' = [tpc EXCEPT ![t] = "pop_locked"]
    /\ UNCHANGED <<nonCacheVars, cached, fifo, shared, targ, offered, log_, last>>

\* pop(), line 77: .pop_front(), then the guard is dropped
PopFront(t) ==
    /\ tpc[t] = "pop_locked"
    /\ mutex = t
    /\ LET r == pop_front(fifo) IN
          /\ fifo' = r.rest
          /\ log_' = Append(log_, [op |-> "pop", res |-> r.res])
          /\ last' = [op |-> "pop", before |-> fifo, after |-> r.rest, res |-> r.res]
    /\ mutex' = 0
    /\ tpc' = [tpc EXCEPT ![t] = "idle"]
    /\ UNCHANGED <<nonCacheVars, cached, shared, targ, offered, pops>>

NextCache ==
    \/ \E level \in CacheLevels : EnableLevel(level)
    \/ \E stage \in StagesTried : EnableStage(stage)
    \/ Share
    \/ \E t \in Threads, stage \in StagesTried, level \in CacheLevels : CacheCall(t, stage, level)
    \/ \E t \in Threads : CachePush(t)
    \/ \E t \in Threads : PopCall(t)
    \/ \E t \in Threads : PopFront(t)

SpecCache == InitCache /\ [][NextCache]_vars

----------------------------------------------------------------------------
(* The position index on its own: a ParsedFile is built from any bounded   *)
(* content, then do_location and as_str are called on it.                  *)

InitIndex ==
    /\ overflow_checks \in BOOLEAN
    /\ \E content \in Contents : file = ParsedFile_new("test", content)
    /\ loc = NoCall
    /\ texts = <<>>
    /\ RenderIdle
    /\ CacheIdle
    /\ RegistryIdle
    /\ StoreIdle

CallDoLocation(offset) ==
    /\ loc' = [called |-> TRUE, offset |-> offset,
               res |-> do_location(file, offset, overflow_checks)]
    /\ UNCHANGED <<overflow_checks, file, texts, nonIndexVars>>

\* as_str is called for the lines 0, 1, 2, ... in turn: texts[n + 1] is as_str(n)
CallAsStr ==
    /\ Len(texts) < Len(file.line_break_offsets) + 2 + MaxOver
    /\ texts' = Append(texts, as_str(file, Len(texts)))
    /\ UNCHANGED <<overflow_checks, file, loc, nonIndexVars>>

NextIndex ==
    \/ \E offset \in 0..(Len(file.content) + MaxOver) : CallDoLocation(offset)
    \/ CallAsStr

SpecIndex == InitIndex /\ [][NextIndex]_vars

----------------------------------------------------------------------------
(* The registries in use: threads call set_caching, set_renderer and the   *)
(* diagnostic() of either module.  OnceLock::set is one step (the Once     *)
(* behind it runs one initialiser at a time); the steps of diagnostic()    *)
(* are the getter, renderer.enabled, builder() and renderer.cache or       *)
(* renderer.render.  A thread whose call panics stops.                     *)

\* the values handed to set_caching: InMemoryCached::new(1) with and without a stage;
\* of a value handed to set_renderer only the identity matters
Installables(reg) ==
    IF reg = "caching"
    THEN { InMemoryCached_new(1),
           [InMemoryCached_new(1) EXCEPT !.stages = {"Parsing"}] }
    ELSE { InMemoryCached_new(0) }

\* the levels through which diagnostic() is called (error(), warn())
LevelsReported == {"Error", "Warn"}

Event(ev, t, f, id, ok) ==
    [ev |-> ev, call |-> f.call, t |-> t, reg |-> f.reg, id |-> id, ok |-> ok]

InitRegistry ==
    /\ overflow_checks = TRUE
    /\ IndexIdle
    /\ RenderIdle
    /\ CacheIdle
    /\ RegistryIdle
    /\ StoreIdle

\* set_caching(renderer), set_renderer(renderer): Box::new(renderer)
SetCall(t, reg, inst) ==
    /\ frames[t].at = "idle"
    /\ calls < MaxCalls
    /\ calls' = calls + 1
    /\ frames' = [frames EXCEPT ![t] =
                    [NoFrame EXCEPT !.at = "set", !.reg = reg, !.call = calls + 1,
                                    !.val = [ id |-> calls + 1, level |-> inst.level,
                                              stages |-> inst.stages,
                                              max_length |-> inst.max_length ]]]
    /\ UNCHANGED <<nonRegistryVars, RENDERER, events, queue>>

\* RENDERER.set(..).map_err(|_| ()).expect("call set_renderer twice.")
OnceSet(t) ==
    /\ frames[t].at = "set"
    /\ LET f == frames[t]
           r == OnceLock_set(RENDERER[f.reg], f.val)
       IN /\ RENDERER' = [RENDERER EXCEPT ![f.reg] = r.cell]
          /\ events' = Append(events, Event("set", t, f, f.val.id, r.res = "Ok"))
          /\ frames' = [frames EXCEPT ![t] =
                          IF r.res = "Ok" THEN NoFrame ELSE [f EXCEPT !.at = "panicked"]]
    /\ UNCHANGED <<nonRegistryVars, calls, queue>>

\* diagnostic(stage, level, builder): `let renderer = get_caching();` in cache.rs,
\* `let renderer = get_renderer();` in diagnostic.rs
DiagnosticCall(t, reg, stage, level) ==
    /\ frames[t].at = "idle"
    /\ calls < MaxCalls
    /\ calls' = calls + 1
    /\ LET r == getter(reg, RENDERER[reg])
           f == [NoFrame EXCEPT !.reg = reg, !.call = calls + 1,
                                !.stage = stage, !.level = level]
       IN IF r.tag = "Ok"
          THEN /\ frames' = [frames EXCEPT ![t] = [f EXCEPT !.at = "enabled", !.val = r.val]]
               /\ events' = Append(events, Event("get", t, f, r.val.id, TRUE))
          ELSE /\ frames' = [frames EXCEPT ![t] = [f EXCEPT !.at = "panicked"]]
               /\ events' = Append(events, Event("get", t, f, 0, FALSE))
    /\ UNCHANGED <<nonRegistryVars, RENDERER, queue>>

\* `if renderer.enabled(stage, level) {`
DiagnosticEnabled(t) ==
    /\ frames[t].at = "enabled"
    /\ LET f == frames[t] IN
       \E res \in enabled_results(f.reg, f.val, f.stage, f.level) :
          /\ events' = Append(events, Event("enabled", t, f, f.val.id, res))
          /\ frames' = [frames EXCEPT ![t] =
                          IF after_enabled(res) = "idle" THEN NoFrame
                          ELSE [f EXCEPT !.at = after_enabled(res)]]
    /\ UNCHANGED <<nonRegistryVars, RENDERER, calls, queue>>

\* `builder()`, the argument of renderer.cache or renderer.render
DiagnosticBuild(t) ==
    /\ frames[t].at = "build"
    /\ events' = Append(events, Event("builder", t, frames[t], frames[t].val.id, TRUE))
    /\ frames' = [frames EXCEPT ![t] = [@ EXCEPT !.at = "sink"]]
    /\ UNCHANGED <<nonRegistryVars, RENDERER, calls, queue>>

\* `renderer.cache(stage, level, ..)` in cache.rs, `renderer.render(stage, level, ..)`
\* in diagnostic.rs; ok tells whether the queue took the diagnostic
DiagnosticSink(t) ==
    /\ frames[t].at = "sink"
    /\ LET f == frames[t]
           after == IF f.reg = "caching"
                    THEN cache(f.val, queue, f.stage, f.level, f.call)
                    ELSE queue
       IN /\ queue' = after
          /\ events' = Append(events, Event(IF f.reg = "caching" THEN "cache" ELSE "render",
                                            t, f, f.val.id, after # queue))
    /\ frames' = [frames EXCEPT ![t] = NoFrame]
    /\ UNCHANGED <<nonRegistryVars, RENDERER, calls>>

NextRegistry ==
    \/ \E t \in Threads, reg \in Registries : \E inst \in Installables(reg) : SetCall(t, reg, inst)
    \/ \E t \in Threads : OnceSet(t)
    \/ \E t \in Threads, reg \in Registries, level \in LevelsReported :
          DiagnosticCall(t, reg, "Parsing", level)
    \/ \E t \in Threads : DiagnosticEnabled(t)
    \/ \E t \in Threads : DiagnosticBuild(t)
    \/ \E t \in Threads : DiagnosticSink(t)

SpecRegistry == InitRegistry /\ [][NextRegistry]_vars

----------------------------------------------------------------------------
(* The source stores in use: sources are added to a Sources and to a       *)
(* SourceCodes, and identifiers are looked up in both.                     *)

\* the sources added: two with different names and contents
Added ==
    { ContentWithName("a.fun", <<"a", "\n">>), ContentWithName("b.fun", <<>>) }

InitStore ==
    /\ overflow_checks = TRUE
    /\ IndexIdle
    /\ RenderIdle
    /\ CacheIdle
    /\ RegistryIdle
    /\ StoreIdle

\* files.add(src(name, content)) on a Sources
SourcesAdd(s) ==
    /\ Len(srcs) < MaxAdds
    /\ LET r == Sources_add(srcs, s) IN
          /\ srcs' = r.srcs
          /\ issued' = [issued EXCEPT !["Sources"] =
                          Append(@, [id |-> r.id, name |-> s.name, content |-> s.content])]
    /\ UNCHANGED <<overflow_checks, idxVars, renderVars, cacheVars, registryVars, looked>>

\* files.add(name, content) on a SourceCodes
SourceCodesAdd(s) ==
    /\ Len(files) < MaxAdds
    /\ LET r == SourceCodes_add(files, s.name, s.content) IN
          /\ files' = r.files
          /\ issued' = [issued EXCEPT !["SourceCodes"] =
                          Append(@, [id |-> r.id, name |-> s.name, content |-> s.content])]
    /\ UNCHANGED <<overflow_checks, idxVars, cacheVars, registryVars,
                   diag, pc, out, status, layouts, srcs, looked>>

\* Sources::get(id), ColorRenderer::write_file_name(id) and Files::to_file_name(id)
Lookup(id) ==
    /\ looked' = [ called |-> TRUE, id |-> id,
                   srcs_len |-> Len(srcs), files_len |-> Len(files),
                   src |-> Sources_get(srcs, id),
                   written |-> write_file_name(srcs, id),
                   name |-> to_file_name(files, id) ]
    /\ UNCHANGED <<nonStoreVars, srcs, issued>>

NextStore ==
    \/ \E s \in Added : SourcesAdd(s)
    \/ \E s \in Added : SourceCodesAdd(s)
    \/ \E id \in 0..MaxAdds : Lookup(id)

SpecStore == InitStore /\ [][NextStore]_vars

----------------------------------------------------------------------------
(* Claims about the position index, checked under SpecIndex.               *)

LineCount(f) == Len(f.line_break_offsets) + 1

\* start offset of a line: 0 for line 1, break[line - 2] + 1 for a later line
LineStart(f, line) ==
    IF line = 1 THEN 0 ELSE f.line_break_offsets[line - 1] + 1

\* C1: for every offset o with 0 <= o <= len(content), to_location(o) succeeds
\* and its (line, column) round-trips: start of that line + column - 1 = o.
C1_RoundTrip ==
    (loc.called /\ loc.offset <= Len(file.content)) =>
        /\ loc.res.tag = "Some"
        /\ loc.res.val.lines \in 1..LineCount(file)
        /\ LineStart(file, loc.res.val.lines) + loc.res.val.cols - 1 = loc.offset

\* the lines as_str has returned so far, joined with one line break between them
RECURSIVE JoinLines(_, _)
JoinLines(results, n) ==
    IF n = 0 THEN <<>>
    ELSE IF n = 1 THEN results[1].val
    ELSE JoinLines(results, n - 1) \o <<"\n">> \o results[n].val

LinesRead == IF Len(texts) = 0 THEN <<>> ELSE SubSeq(texts, 2, Len(texts))

\* C2: line_text(n) succeeds for every n from 1 to the line count (breaks + 1),
\* and the lines joined with one line break in between reproduce the content.
C2_LinesRoundTrip ==
    /\ \A n \in 1..LineCount(file) :
            n <= Len(LinesRead) => LinesRead[n].tag = "Ok"
    /\ Len(LinesRead) >= LineCount(file) =>
            JoinLines(LinesRead, LineCount(file)) = file.content

\* index (0-based) of the first recorded break offset >= offset
FirstBreakAtOrAfter(f, offset) ==
    CHOOSE i \in 0..(Len(f.line_break_offsets) - 1) :
        /\ f.line_break_offsets[i + 1] >= offset
        /\ \A j \in 0..(i - 1) : f.line_break_offsets[j + 1] < offset

RefLocation(f, offset) ==
    IF f.line_break_offsets = <<>> THEN Location(1, offset + 1)
    ELSE LET i == FirstBreakAtOrAfter(f, offset) IN
         IF i = 0 THEN Location(1, offset + 1)
         ELSE Location(i + 1, offset - (f.line_break_offsets[i] + 1) + 1)

HasBreakAtOrAfter(f, offset) ==
    \E i \in 1..Len(f.line_break_offsets) : f.line_break_offsets[i] >= offset

\* C3: to_location(offset) equals the reference mapping: line 1, column offset+1
\* without line breaks; otherwise line = 1 + index of the first break >= offset,
\* column = offset+1 on the first line and offset - (previous break + 1) + 1 later.
C3_ReferenceMapping ==
    (loc.called /\ (file.line_break_offsets = <<>> \/ HasBreakAtOrAfter(file, loc.offset))) =>
        loc.res = Some(RefLocation(file, loc.offset))

\* C6: to_location(offset) returns no Location for every offset greater than
\* the content length, also for a content with no line breaks.
C6_OutOfRangeFails ==
    (loc.called /\ loc.offset > Len(file.content)) => loc.res.tag = "None"

----------------------------------------------------------------------------
(* Claims about the terminal renderer, checked under SpecRender.           *)

\* the items of a given kind, in order
RECURSIVE OfKind(_, _)
OfKind(seq, kind) ==
    IF seq = <<>> THEN <<>>
    ELSE (IF Head(seq).kind = kind THEN <<Head(seq)>> ELSE <<>>) \o OfKind(Tail(seq), kind)

DemoDiagnostic ==
    [ level |-> "Error", code |-> Some(10), message |-> "type mismatch", nodes |-> <<>>,
      labels |-> << [ id |-> 0,
                      primary |-> [range |-> [start |-> 0, end |-> 4], message |-> "here"],
                      secondary |-> <<>> ] >> ]

DemoRendered ==
    /\ pc = "done"
    /\ files = <<ParsedFile_new("demo.fun", DemoContent)>>
    /\ diag = DemoDiagnostic

\* the header `error[000010]: type mismatch`, the file-name line, source line 1 and
\* one caret annotation of width 4 carrying `here`, in this order
DemoOutput ==
    \E h, f, g, u \in 1..Len(out) :
        /\ h + 2 < f /\ f < g /\ g + 1 < u /\ u + 1 <= Len(out)
        /\ out[h] = [kind |-> "level", text |-> "error", nl |-> FALSE]
        /\ out[h + 1] = [kind |-> "code", text |-> <<"[", "0", "0", "0", "0", "1", "0", "]">>,
                         nl |-> FALSE]
        /\ out[h + 2] = [kind |-> "message", text |-> "type mismatch", nl |-> TRUE]
        /\ out[f].kind = "file" /\ out[f].text = "demo.fun"
        /\ out[g].kind = "gutter" /\ out[g].line = 1
        /\ out[g + 1].kind = "source"
        /\ out[g + 1].text = SubSeq(DemoContent, 1, Len(DemoContent) - 1)
        /\ out[u] = [kind |-> "underline", glyph |-> "^", len |-> 4, nl |-> FALSE]
        /\ out[u + 1] = [kind |-> "label", text |-> "here", nl |-> TRUE]
        /\ Len(OfKind(out, "underline")) = 1

\* a diagnostic whose only label is a primary region lying on the first line of a
\* registered source that ends in a line break
FirstLineLabel ==
    /\ Len(diag.labels) = 1
    /\ diag.labels[1].secondary = <<>>
    /\ diag.labels[1].id < Len(files)
    /\ LET c == files[diag.labels[1].id + 1].content
           breaks == files[diag.labels[1].id + 1].line_break_offsets
           r == diag.labels[1].primary.range
       IN /\ c # <<>> /\ c[Len(c)] = "\n"
          /\ r.start <= r.end /\ r.end <= breaks[1]

\* the general case of C4: any primary inline label on the first line of a source
\* that ends in a line break renders instead of aborting
FirstLineLabelRenders ==
    (pc = "done" /\ FirstLineLabel) => status = "ok"

\* C4: rendering the demo.fun diagnostic (Error, code 10, "type mismatch", primary
\* label 0..4 "here" over "fizz : Nat -> String\n") completes without failure and
\* emits the header `error[000010]: type mismatch`, the file-name line, source
\* line 1 and one caret annotation of width 4 carrying "here", in this order.
C4_DemoScenario ==
    DemoRendered => (status = "ok" /\ DemoOutput)

\* the regions of a label in the order they are processed: primary, then secondary
Regions(label) == <<label.primary>> \o label.secondary

\* the location of a region, where both of its offsets resolve
RegionLocation(label, region) ==
    to_location(files, label.id, region.range, overflow_checks)

\* the region's offsets lie after the first line break and not after the last one,
\* where do_location resolves an offset to its line and column
Resolved(label, region) ==
    /\ label.id < Len(files)
    /\ LET breaks == files[label.id + 1].line_break_offsets IN
       /\ breaks # <<>>
       /\ \A o \in {region.range.start, region.range.end} :
            breaks[1] < o /\ o <= breaks[Len(breaks)]

IsMultiLine(label, region) ==
    /\ RegionLocation(label, region).tag = "Some"
    /\ RegionLocation(label, region).val.start.lines
         # RegionLocation(label, region).val.end.lines

\* the lane of the n-th region: the number of multi-line regions processed before it
Lane(label, n) ==
    Cardinality({k \in 1..(n - 1) : IsMultiLine(label, Regions(label)[k])})

\* the (line, position) places of the markers of a lane
LaneMarkers(layout, lane) ==
    { <<line, i>> \in { <<l, j>> \in (DOMAIN layout.multiline_lables) \X (1..(2 * MaxRegions + 2)) :
                          j <= Len(layout.multiline_lables[l]) } :
        layout.multiline_lables[line][i].index = lane }

\* one open marker (start column, no message) at the start line and one close
\* marker (end column, the message) at the end line, and no other marker of the lane
OpenCloseRecorded(layout, l, lane, message) ==
    \E o, c \in LaneMarkers(layout, lane) :
        /\ LaneMarkers(layout, lane) = {o, c}
        /\ o # c
        /\ o[1] = l.start.lines
        /\ layout.multiline_lables[o[1]][o[2]] = Marker(l.start.cols, None, lane)
        /\ c[1] = l.end.lines
        /\ layout.multiline_lables[c[1]][c[2]] = Marker(l.end.cols, Some(message), lane)

\* C5: every region, primary or secondary, whose start and end resolve to different
\* lines gets exactly one open marker keyed at its start line and exactly one close
\* marker with the message keyed at its end line, both with the same lane index.
C5_OpenAtStartCloseAtEnd ==
    \A i \in 1..Len(layouts) :
        \A n \in 1..Len(Regions(diag.labels[i])) :
            ( /\ Resolved(diag.labels[i], Regions(diag.labels[i])[n])
              /\ IsMultiLine(diag.labels[i], Regions(diag.labels[i])[n]) ) =>
                OpenCloseRecorded(layouts[i],
                                  RegionLocation(diag.labels[i], Regions(diag.labels[i])[n]).val,
                                  Lane(diag.labels[i], n),
                                  Regions(diag.labels[i])[n].message)

\* a label of a registered source with a region whose start > end, both within the content
HasReversedRegion(label) ==
    /\ label.id < Len(files)
    /\ \E n \in 1..Len(Regions(label)) :
          LET r == Regions(label)[n].range IN
          /\ r.start > r.end
          /\ r.start <= Len(files[label.id + 1].content)

\* C7: rendering a diagnostic that carries a region whose start > end (both within
\* the content) always aborts, on one line or across lines; it is never rendered.
C7_ReversedRegionAborts ==
    (pc = "done" /\ \E i \in 1..Len(diag.labels) : HasReversedRegion(diag.labels[i]))
        => status = "panic"

NoteTexts(items) == [i \in 1..Len(items) |-> items[i].text]

\* C8: one render call emits each note exactly once, in note order, after all
\* snippet output, also with zero labels and only once with several labels.
C8_NotesOnceAfterSnippets ==
    (pc = "done" /\ status = "ok") =>
        /\ NoteTexts(OfKind(out, "note")) = diag.nodes
        /\ \A i, j \in 1..Len(out) :
              (out[i].kind \in {"note_mark", "note"} /\ i < j)
                  => out[j].kind \in {"note_mark", "note"}

\* the diagnostic of the end-to-end scenario: one label over tall.fun whose primary
\* region runs from line 2 column 3 (offset 3) to line 4 column 1 (offset 5)
SpanDiagnostic(d) ==
    /\ Len(d.labels) = 1
    /\ d.labels[1].id = 0
    /\ d.labels[1].primary.range = [start |-> 3, end |-> 5]
    /\ d.labels[1].secondary = <<>>

SpanRendered ==
    /\ pc = "done"
    /\ files = <<ParsedFile_new("tall.fun", TallContent)>>
    /\ SpanDiagnostic(diag)

\* the place in `out` of the gutter of a source line, 0 if the line was not rendered
GutterOf(line) ==
    IF \E i \in 1..Len(out) : out[i].kind = "gutter" /\ out[i].line = line
    THEN CHOOSE i \in 1..Len(out) : out[i].kind = "gutter" /\ out[i].line = line
    ELSE 0

\* lines 2, 3 and 4 are rendered in this order with one indentation, an open marker
\* without text follows line 2 and a close marker with the message follows line 4
SpanOutput ==
    /\ 0 < GutterOf(2) /\ GutterOf(2) < GutterOf(3) /\ GutterOf(3) < GutterOf(4)
    /\ out[GutterOf(2) + 1].indent = out[GutterOf(3) + 1].indent
    /\ out[GutterOf(3) + 1].indent = out[GutterOf(4) + 1].indent
    /\ \E o, c \in 1..Len(out) :
          /\ GutterOf(2) < o /\ o < GutterOf(3)
          /\ out[o].kind = "open"
          /\ GutterOf(4) < c
          /\ out[c].kind = "close" /\ out[c].message = diag.labels[1].primary.message
          /\ out[c].pad = out[o].pad
    /\ Len(OfKind(out, "open")) = 1
    /\ Len(OfKind(out, "close")) = 1

\* C13: the label from line 2 column 3 to line 4 column 1 renders without failure,
\* with an open marker line (no text) after line 2, a close marker line carrying the
\* message after line 4, and lines 2, 3 and 4 all rendered at the same lane column.
C13_SpanScenario ==
    SpanRendered => (status = "ok" /\ SpanOutput)

\* every region of every label resolves, and none is reversed
AllResolved ==
    \A i \in 1..Len(diag.labels) :
        \A n \in 1..Len(Regions(diag.labels[i])) :
            /\ Resolved(diag.labels[i], Regions(diag.labels[i])[n])
            /\ Regions(diag.labels[i])[n].range.start <= Regions(diag.labels[i])[n].range.end

\* the line numbers the regions of the diagnostic start and end at
LabelLines ==
    UNION { { RegionLocation(diag.labels[i], Regions(diag.labels[i])[n]).val.start.lines,
              RegionLocation(diag.labels[i], Regions(diag.labels[i])[n]).val.end.lines } :
            <<i, n>> \in { <<j, m>> \in (1..Len(diag.labels)) \X (1..(MaxRegions + 1)) :
                             m <= Len(Regions(diag.labels[j])) } }

\* the decimal digit count of a number below 100000
Digits(n) ==
    IF n < 10 THEN 1 ELSE IF n < 100 THEN 2 ELSE IF n < 1000 THEN 3
    ELSE IF n < 10000 THEN 4 ELSE 5

\* C14: every gutter of one render call (line-number gutters, the blank gutters of
\* the file header and of the annotation lines) has the width of the decimal digits
\* of the largest line number any label of the diagnostic starts or ends at.
C14_GutterWidth ==
    (pc = "done" /\ status = "ok" /\ diag.labels # <<>> /\ AllResolved) =>
        \A i \in 1..Len(out) :
            /\ out[i].kind = "gutter" =>
                  out[i].width = Digits(CHOOSE m \in LabelLines : \A l \in LabelLines : l <= m)
            /\ out[i].kind \in {"file", "margin"} =>
                  out[i].pad = Digits(CHOOSE m \in LabelLines : \A l \in LabelLines : l <= m)

\* the sources the labels of the diagnostic reference
SourcesReferenced == {diag.labels[i].id : i \in 1..Len(diag.labels)}

\* C17: one render call emits the file-name header exactly once for each distinct
\* source its labels reference, before the first source line of that source, also
\* when several labels reference the same source.
C17_FileHeaderOnce ==
    (pc = "done" /\ status = "ok") =>
        \A id \in SourcesReferenced :
            /\ Cardinality({i \in 1..Len(out) :
                              out[i].kind = "file" /\ out[i].text = files[id + 1].file_name}) = 1
            /\ \A i, g \in 1..Len(out) :
                  (out[i].kind = "file" /\ out[g].kind = "gutter") => i < g

\* C19: with every label offset in range, the connector length of each multi-line
\* open or close marker, column + (multi-line labels + 1) - 2 * lane - 4, is never
\* negative, so no render aborts or wraps on it.
C19_ConnectorNotNegative ==
    (pc = "done" /\ AllResolved) =>
        \A i \in 1..Len(layouts) :
            \A line \in DOMAIN layouts[i].multiline_lables :
                \A k \in 1..Len(layouts[i].multiline_lables[line]) :
                    LET m == layouts[i].multiline_lables[line][k] IN
                    /\ m.offset >= 1
                    /\ m.offset + (layouts[i].multilines + 1) - 2 * m.index - 4 >= 0

----------------------------------------------------------------------------
(* Claims about one label group, checked under SpecGroup.                  *)

\* the regions of the label that lie on one line, that line being `line`: their
\* places in the processing order (1 = the primary region)
InlineOn(label, line) ==
    { n \in 1..Len(Regions(label)) :
        /\ RegionLocation(label, Regions(label)[n]).tag = "Some"
        /\ RegionLocation(label, Regions(label)[n]).val.start.lines = line
        /\ RegionLocation(label, Regions(label)[n]).val.end.lines = line }

\* the one of them processed last
LastInlineOn(label, line) ==
    CHOOSE n \in InlineOn(label, line) : \A k \in InlineOn(label, line) : k <= n

\* the place in `out` of the gutter that follows place i, or the end of `out`
NextGutter(i) ==
    IF \E j \in (i + 1)..Len(out) : out[j].kind = "gutter"
    THEN CHOOSE j \in (i + 1)..Len(out) :
            /\ out[j].kind = "gutter"
            /\ \A k \in (i + 1)..(j - 1) : out[k].kind # "gutter"
    ELSE Len(out) + 1

\* the inline annotations written for the source line whose gutter is at place i
UnderlinesOf(i) ==
    {j \in (i + 1)..(NextGutter(i) - 1) : out[j].kind = "underline"}

\* the annotation written at places j - 1, j, j + 1 is that of region n of the label
AnnotationOf(j, label, n, ident_size) ==
    LET l == RegionLocation(label, Regions(label)[n]).val IN
    /\ out[j - 1] = [kind |-> "pad", pad |-> (l.start.cols - 1) + ident_size, nl |-> FALSE]
    /\ out[j] = [kind |-> "underline", glyph |-> IF n = 1 THEN "^" ELSE "-",
                 len |-> l.end.cols - l.start.cols, nl |-> FALSE]
    /\ out[j + 1] = [kind |-> "label", text |-> Regions(label)[n].message, nl |-> TRUE]

\* C18: of the inline regions of a label group that lie on the same line, the one
\* processed last (primary first, then the secondary regions in order) is the one
\* recorded for the line, and a completed render writes exactly one inline
\* annotation for the line, with that region's columns, message and glyph; a line
\* without inline region gets none.
C18_LastInlineWins ==
    (pc = "done" /\ Len(layouts) = 1) =>
        LET label == diag.labels[1]
            layout == layouts[1]
        IN
        /\ \A line \in layout.lines :
              IF InlineOn(label, line) = {}
              THEN line \notin DOMAIN layout.inline_labels
              ELSE /\ line \in DOMAIN layout.inline_labels
                   /\ layout.inline_labels[line] =
                        [ location |-> RegionLocation(label,
                                          Regions(label)[LastInlineOn(label, line)]).val,
                          message |-> Regions(label)[LastInlineOn(label, line)].message,
                          primary |-> LastInlineOn(label, line) = 1 ]
        /\ status = "ok" =>
              \A line \in layout.lines :
                  \E i \in 1..Len(out) :
                      /\ out[i].kind = "gutter" /\ out[i].line = line
                      /\ IF InlineOn(label, line) = {}
                         THEN UnderlinesOf(i) = {}
                         ELSE \E j \in UnderlinesOf(i) :
                                 /\ UnderlinesOf(i) = {j}
                                 /\ AnnotationOf(j, label, LastInlineOn(label, line),
                                                 layout.multilines + 1)

\* a completed render of a group whose primary region and second secondary region
\* lie on line 2 with different ranges, the first secondary region lying on line 3
C18_Witness ==
    /\ pc = "done" /\ status = "ok"
    /\ Len(layouts) = 1
    /\ InlineOn(diag.labels[1], 2) = {1, 3}
    /\ InlineOn(diag.labels[1], 3) = {2}
    /\ diag.labels[1].primary.range # diag.labels[1].secondary[2].range
    /\ Len(OfKind(out, "underline")) = 2

----------------------------------------------------------------------------
(* Claims about the in-memory cache, checked under SpecCache.              *)

\* the items cache() tried to push, in the order the lock was taken
RECURSIVE Attempted(_)
Attempted(entries) ==
    IF entries = <<>> THEN <<>>
    ELSE (IF Head(entries).op = "push" THEN <<Head(entries).item>> ELSE <<>>)
         \o Attempted(Tail(entries))

\* the items cache() stored, in the order they were accepted
RECURSIVE Accepted(_)
Accepted(entries) ==
    IF entries = <<>> THEN <<>>
    ELSE (IF Head(entries).op = "push" /\ Head(entries).stored
          THEN <<Head(entries).item>> ELSE <<>>)
         \o Accepted(Tail(entries))

\* the items the pops returned, in the order of the pops
RECURSIVE Popped(_)
Popped(entries) ==
    IF entries = <<>> THEN <<>>
    ELSE (IF Head(entries).op = "pop" /\ Head(entries).res.tag = "Some"
          THEN <<Head(entries).res.val>> ELSE <<>>)
         \o Popped(Tail(entries))

NoPopYet == \A i \in 1..Len(log_) : log_[i].op = "push"

Min(a, b) == IF a <= b THEN a ELSE b

\* C9: in every interleaving of cache and pop calls the queue never holds more than
\* max_length items; a cache call made while the queue holds max_length items
\* leaves the queue unchanged (drop newest); so, pops aside, the queue holds exactly
\* the first max_length admitted diagnostics.
C9_DropNewest ==
    /\ Len(fifo) <= cached.max_length
    /\ (last.op = "push" /\ Len(last.before) = cached.max_length)
          => last.after = last.before
    /\ NoPopYet =>
          fifo = SubSeq(Attempted(log_), 1, Min(cached.max_length, Len(Attempted(log_))))

\* max_length + 1 consecutive pushes on a cache of capacity >= 1: the last one dropped
C9_Witness ==
    /\ cached.max_length >= 1
    /\ NoPopYet
    /\ Len(log_) = cached.max_length + 1
    /\ ~log_[Len(log_)].stored
    /\ Len(fifo) = cached.max_length
    /\ log_[1].item.diagnostic # log_[2].item.diagnostic

\* C10: the diagnostics returned by successive pops are exactly the accepted
\* diagnostics in the order they were accepted, each once and none skipped, whatever
\* their levels or stages; pop on an empty queue returns None and leaves it empty.
C10_FifoOrder ==
    /\ Accepted(log_) = Popped(log_) \o fifo
    /\ (last.op = "pop" /\ last.before = <<>>) => (last.res = None /\ last.after = <<>>)
    /\ (last.op = "pop" /\ last.before # <<>>) => last.res = Some(Head(last.before))

\* two pops have returned two accepted diagnostics of different level and stage
C10_Witness ==
    /\ Len(Popped(log_)) >= 2
    /\ Popped(log_)[1].level # Popped(log_)[2].level
    /\ Popped(log_)[1].stage # Popped(log_)[2].stage
    /\ Popped(log_)[1] = Accepted(log_)[1]

\* the levels from the most severe to the least severe
Severity == <<"Bug", "Error", "Warn">>

Ordinal(level) == CHOOSE i \in 1..Len(Severity) : Severity[i] = level

\* at least as severe as the threshold, and of a stage that was enabled
Admits(c, stage, level) ==
    /\ Ordinal(level) <= Ordinal(c.level)
    /\ stage \in c.stages

\* the stages enabled() is asked about: those the runs enable, and two they never do
StagesAsked == StagesTried \cup {"None", "CodeGen"}

\* C15: enabled(stage, level) is true exactly when the level is not less severe than
\* the threshold (Bug < Error < Warn, default threshold Error) and the stage was
\* enabled; new(k) alone admits nothing, and only admitted diagnostics reach the queue.
\* The filter is compared for every configuration the builder calls reach, while
\* the cache is being configured; once shared its configuration no longer changes.
C15_EnabledFilter ==
    /\ InMemoryCached_new(cached.max_length).level = "Error"
    /\ cached = InMemoryCached_new(cached.max_length) =>
          \A stage \in StagesAsked, level \in CacheLevels : ~enabled(cached, stage, level)
    /\ ~shared =>
          \A stage \in StagesAsked, level \in CacheLevels :
              enabled(cached, stage, level) <=> Admits(cached, stage, level)
    /\ \A t \in Threads :
          tpc[t] = "cache_locked" => Admits(cached, targ[t].stage, targ[t].level)
    /\ \A i \in 1..Len(log_) :
          log_[i].op = "push" => Admits(cached, log_[i].item.stage, log_[i].item.level)

\* a cache with the default threshold and one stage enabled that was offered two
\* diagnostics, took the one it admits and suppressed the other
C15_Witness ==
    /\ shared
    /\ cached.level = "Error" /\ cached.stages = {"Parsing"}
    /\ offered = 2
    /\ \A t \in Threads : tpc[t] = "idle"
    /\ Len(log_) = 1
    /\ log_[1].op = "push" /\ log_[1].item.level = "Bug"

----------------------------------------------------------------------------
(* Claims about the registries, checked under SpecRegistry.                *)

\* the places in `events` of the install attempts on a registry
Installs(reg) ==
    {i \in 1..Len(events) : events[i].ev = "set" /\ events[i].reg = reg}

\* C11: on each registry, in every interleaving of set calls, exactly the first
\* attempt succeeds and every later one panics at its call site; the cell then holds
\* the first value for good, and every getter call after it returns that value.
C11_InstallOnce ==
    \A reg \in Registries :
        /\ (Installs(reg) = {}) => RENDERER[reg] = None
        /\ \A i \in Installs(reg) :
              /\ events[i].ok <=> (\A j \in Installs(reg) : i <= j)
              /\ ~events[i].ok =>
                    /\ frames[events[i].t].at = "panicked"
                    /\ frames[events[i].t].call = events[i].call
              /\ events[i].ok =>
                    /\ RENDERER[reg].tag = "Some"
                    /\ RENDERER[reg].val.id = events[i].id
                    /\ \A k \in (i + 1)..Len(events) :
                          (events[k].ev = "get" /\ events[k].reg = reg) =>
                              (events[k].ok /\ events[k].id = events[i].id)

\* two install attempts on one registry, the second failed, and a getter call after both
C11_Witness ==
    \E i, j, k \in 1..Len(events) :
        /\ i < j /\ j < k
        /\ events[i].ev = "set" /\ events[i].ok
        /\ events[j].ev = "set" /\ ~events[j].ok /\ events[j].reg = events[i].reg
        /\ events[j].t # events[i].t
        /\ events[k].ev = "get" /\ events[k].reg = events[i].reg
        /\ events[k].id = events[i].id

\* what a diagnostic() call did after its getter, in order
CallEvents(c) ==
    SelectSeq(events, LAMBDA e : e.call = c /\ e.ev \notin {"set", "get"})

\* no thread is inside call c
Returned(c) == \A t \in Threads : frames[t].call # c

\* the diagnostics the installed queue took, in order
Stored == SelectSeq(events, LAMBDA e : e.ev = "cache" /\ e.ok)

\* C12: a diagnostic() call evaluates enabled first; it runs the builder once and
\* then cache or render when enabled answered true, and does neither when it
\* answered false, so the queue holds what the enabled calls put there and no more.
C12_LazyBuilder ==
    /\ \A c \in 1..calls :
          LET es == CallEvents(c) IN
          /\ Len(es) <= 3
          /\ Len(es) >= 1 => es[1].ev = "enabled"
          /\ Len(es) >= 2 => (es[1].ok /\ es[2].ev = "builder")
          /\ Len(es) >= 3 => es[3].ev = (IF es[1].reg = "caching" THEN "cache" ELSE "render")
          /\ (Returned(c) /\ es # <<>>) => Len(es) = (IF es[1].ok THEN 3 ELSE 1)
    /\ Len(queue) = Len(Stored)
    /\ \A i \in 1..Len(queue) : queue[i].diagnostic = Stored[i].call

\* one returned call that enabled refused and one whose diagnostic the queue took
C12_Witness ==
    /\ queue # <<>>
    /\ \E c, d \in 1..calls :
          /\ Returned(c) /\ Len(CallEvents(c)) = 1 /\ ~CallEvents(c)[1].ok
          /\ CallEvents(c)[1].reg = "caching"
          /\ Returned(d) /\ Len(CallEvents(d)) = 3 /\ CallEvents(d)[3].ok

----------------------------------------------------------------------------
(* Claims about the source stores, checked under SpecStore.                *)

\* C16: the n-th add to a store (from 0) returned identifier n, and after any later
\* adds a lookup of n still yields the name and content given to that add; a lookup
\* of an identifier not assigned yet yields None from Sources::get and a panic in
\* the renderers.
C16_StableIds ==
    /\ \A n \in 1..Len(issued["Sources"]) :
          LET a == issued["Sources"][n] IN
          /\ a.id = n - 1
          /\ Sources_get(srcs, a.id) = Some(ContentWithName(a.name, a.content))
          /\ write_file_name(srcs, a.id) = Ok(a.name)
    /\ \A n \in 1..Len(issued["SourceCodes"]) :
          LET a == issued["SourceCodes"][n] IN
          /\ a.id = n - 1
          /\ to_file_name(files, a.id) = Ok(a.name)
          /\ files[a.id + 1].content = a.content
    /\ Len(srcs) = Len(issued["Sources"])
    /\ Len(files) = Len(issued["SourceCodes"])
    /\ looked.called =>
          /\ IF looked.id < looked.srcs_len
             THEN /\ looked.src = Sources_get(srcs, looked.id)
                  /\ looked.written = write_file_name(srcs, looked.id)
             ELSE /\ looked.src = None
                  /\ looked.written = Panic
          /\ IF looked.id < looked.files_len
             THEN looked.name = to_file_name(files, looked.id)
             ELSE looked.name = Panic

\* identifier 0 was looked up, two more sources were added to each store since, and
\* what the lookup returned is still the first source
C16_Witness ==
    /\ looked.called /\ looked.id = 0
    /\ looked.srcs_len = 1 /\ Len(srcs) = 3
    /\ looked.files_len = 1 /\ Len(files) = 3
    /\ looked.src = Some(ContentWithName("a.fun", <<"a", "\n">>))
    /\ srcs[2] = ContentWithName("b.fun", <<>>)
    /\ looked.name = Ok("a.fun")

====
